---------------------------- MODULE Spec2Model ----------------------------
(***************************************************************************)
(* Model of timezone_dashboard.py: the zone catalog and its offset         *)
(* snapshot, the local-zone detector, the manual conversion (localize)     *)
(* and the projection of one instant into the target zones, and the        *)
(* offset formatter.                                                       *)
(*                                                                         *)
(* Encodings.  A naive datetime is the number of seconds from              *)
(* 1970-01-01 00:00:00 to its wall-clock reading; an instant is epoch      *)
(* seconds.  A Python str the program only compares is a TLA+ string; a    *)
(* str the program builds character by character (an f-string, strftime)  *)
(* is a sequence of one-character strings.  An optional value is <<>>      *)
(* (None) or <<v>>.  Where a value is read several times it is bound once  *)
(* as the single element of a set (CHOOSE r \in { f(x) : x \in { e } }),   *)
(* which stands for LET x == e IN f(x).                                    *)
(***************************************************************************)
EXTENDS Integers, Sequences, FiniteSets, TLC

VARIABLES
    pc,                 \* position of the script run
    \* ---- startup: catalog, snapshot, detector, Home Clock selectbox
    timezones,          \* get_timezones(): the catalog list
    host,               \* what the host platform reports to the detector
    now_utc,            \* the clock: datetime.utcnow() / datetime.now(tz)
    offset_map,         \* build_offset_map(timezones)
    default_source_tz,  \* detector result: zone
    detect_path,        \* detector result: tag
    ui_error,           \* an st.error / raised exception shown to the user
    target_labels,      \* the labels the Other Clocks multiselect shows
    \* ---- conversion
    USE_ZONEINFO,       \* zoneinfo importable (else the pytz path)
    source_tz_name,     \* Home Clock selection
    target_tz_names,    \* Other Clocks selection
    chosen_dt_naive,    \* datetime.combine(user_date, user_time)
    choice,             \* index picked in the st.radio (0 is the default)
    ambiguity_note,     \* which radio the manual conversion showed
    localized_source_dt,\* the aware home datetime
    cards,              \* what render_card wrote: home card, then targets
    rows,               \* the CSV rows: home row, then one per target
    \* ---- offset formatter
    fmt_in,             \* utcoffset() handed to the formatter
    fmt_text,           \* an offset string handed to the parser
    fmt_out             \* the formatter's output

vars == << pc, timezones, host, now_utc, offset_map, default_source_tz,
           detect_path, ui_error, target_labels, USE_ZONEINFO, source_tz_name,
           target_tz_names, chosen_dt_naive, choice, ambiguity_note,
           localized_source_dt, cards, rows, fmt_in, fmt_text, fmt_out >>

startupVars == << timezones, host, now_utc, offset_map, default_source_tz,
                  detect_path, ui_error, target_labels >>

convVars == << USE_ZONEINFO, source_tz_name, target_tz_names,
               chosen_dt_naive, choice, ambiguity_note,
               localized_source_dt, cards, rows >>

fmtVars == << fmt_in, fmt_text, fmt_out >>

(***************************************************************************)
(* Bounds of the model.                                                    *)
(***************************************************************************)
\* longest catalog list handed to the detector
MaxCat == 2
\* quarter-hour steps taken on each side of a DST transition
Span == 6
\* most Other Clocks selected at once
MaxTargets == 2

(***************************************************************************)
(* Generic helpers.                                                        *)
(***************************************************************************)
None == << >>

Some(v) == << v >>

Abs(n) == IF n >= 0 THEN n ELSE -n

Max(a, b) == IF a >= b THEN a ELSE b

Min(a, b) == IF a <= b THEN a ELSE b

\* x in seq (Python's "in" on a list)
InList(x, seq) == \E i \in 1..Len(seq) : seq[i] = x

\* list.index(x)
IndexOf(x, seq) == CHOOSE i \in 1..Len(seq) : seq[i] = x /\ \A j \in 1..(i-1) : seq[j] # x

\* all lists without repetition over S of length lo..hi
RECURSIVE InjSeqs(_, _)
InjSeqs(S, n) ==
    IF n = 0 THEN { << >> }
    ELSE { Append(s, x) : s \in InjSeqs(S, n - 1), x \in S } \
         { s \in { Append(t, x) : t \in InjSeqs(S, n - 1), x \in S } :
               \E i \in 1..(n-1) : s[i] = s[n] }

ListsOver(S, lo, hi) == UNION { InjSeqs(S, n) : n \in lo..hi }

(***************************************************************************)
(* Text: decimal digits and "{n:02d}".                                     *)
(***************************************************************************)
Digits == << "0", "1", "2", "3", "4", "5", "6", "7", "8", "9" >>

Digit(d) == Digits[d + 1]

DigitVal(c) == (CHOOSE i \in 1..10 : Digits[i] = c) - 1

IsDigit(c) == \E i \in 1..10 : Digits[i] = c

RECURSIVE Dec(_)
Dec(n) == IF n < 10 THEN << Digit(n) >> ELSE Append(Dec(n \div 10), Digit(n % 10))

\* f"{n:02d}" / "%02d": at least two digits, zero padded
Pad2(n) == IF n < 10 THEN << "0", Digit(n) >> ELSE Dec(n)

\* "%Y" for the years 1000..9999
Pad4(n) == Dec(n)

(***************************************************************************)
(* The zone database the program reads through ZoneInfo(name) and          *)
(* pytz.timezone(name): for each zone the offset in force at the start of  *)
(* 2023 and the transitions of 2023 and 2024 (UTC instant, new offset,     *)
(* abbreviation, whether the new period is daylight time).                 *)
(***************************************************************************)
TTI(off, abbr, dst) == [off |-> off, abbr |-> abbr, dst |-> dst]

Tr(utc, off, abbr, dst) == [utc |-> utc, tti |-> TTI(off, abbr, dst)]

UsEastern ==
    [init |-> TTI(-18000, "EST", FALSE),
     trans |-> << Tr(1678604400, -14400, "EDT", TRUE),
                  Tr(1699164000, -18000, "EST", FALSE),
                  Tr(1710054000, -14400, "EDT", TRUE),
                  Tr(1730613600, -18000, "EST", FALSE) >>]

ZoneRules(z) ==
    CASE z = "UTC" -> [init |-> TTI(0, "UTC", FALSE), trans |-> << >>]
      [] z = "Asia/Kolkata" -> [init |-> TTI(19800, "IST", FALSE), trans |-> << >>]
      [] z = "Asia/Calcutta" -> [init |-> TTI(19800, "IST", FALSE), trans |-> << >>]
      [] z = "Asia/Colombo" -> [init |-> TTI(19800, "+0530", FALSE), trans |-> << >>]
      [] z = "America/New_York" -> UsEastern
      [] z = "America/Indiana/Indianapolis" -> UsEastern
      [] z = "America/Los_Angeles" ->
            [init |-> TTI(-28800, "PST", FALSE),
             trans |-> << Tr(1678615200, -25200, "PDT", TRUE),
                          Tr(1699174800, -28800, "PST", FALSE),
                          Tr(1710064800, -25200, "PDT", TRUE),
                          Tr(1730624400, -28800, "PST", FALSE) >>]
      [] z = "America/St_Johns" ->
            [init |-> TTI(-12600, "NST", FALSE),
             trans |-> << Tr(1678599000, -9000, "NDT", TRUE),
                          Tr(1699158600, -12600, "NST", FALSE),
                          Tr(1710048600, -9000, "NDT", TRUE),
                          Tr(1730608200, -12600, "NST", FALSE) >>]
      [] z = "Pacific/Marquesas" -> [init |-> TTI(-34200, "-0930", FALSE), trans |-> << >>]
      [] z = "Australia/Lord_Howe" ->
            [init |-> TTI(39600, "+11", TRUE),
             trans |-> << Tr(1680361200, 37800, "+1030", FALSE),
                          Tr(1696087800, 39600, "+11", TRUE),
                          Tr(1712415600, 37800, "+1030", FALSE),
                          Tr(1728142200, 39600, "+11", TRUE) >>]

\* every zone of the database
AllZones == { "UTC", "Asia/Kolkata", "Asia/Calcutta", "Asia/Colombo",
              "America/New_York",
              "America/Indiana/Indianapolis", "America/Los_Angeles",
              "America/St_Johns", "Pacific/Marquesas", "Australia/Lord_Howe" }

\* period k of a zone: 0 is the initial one, k the one transition k starts
TtiOf(z, k) == IF k = 0 THEN ZoneRules(z).init ELSE ZoneRules(z).trans[k].tti

NTrans(z) == Len(ZoneRules(z).trans)

\* the period in force at a UTC instant: bisect_right of the instant in
\* the (ascending) transition times
PeriodAtUtc(z, t) ==
    Cardinality({ k \in 1..NTrans(z) : ZoneRules(z).trans[k].utc <= t })

\* zoneinfo's wall-clock transition lists (_ts_to_local): with fold=0 a
\* transition takes effect at its instant plus the larger of the offsets
\* around it, with fold=1 at its instant plus the smaller
WallOfTrans(z, k, fold) ==
    LET before == TtiOf(z, k - 1).off
        after  == TtiOf(z, k).off
    IN  ZoneRules(z).trans[k].utc
          + (IF fold = 0 THEN Max(before, after) ELSE Min(before, after))

\* zoneinfo's _find_trans for a wall-clock reading and its fold
PeriodAtWall(z, wall, fold) ==
    Cardinality({ k \in 1..NTrans(z) : WallOfTrans(z, k, fold) <= wall })

(***************************************************************************)
(* datetime objects.  An aware datetime is [wall, tz, fold]; tz is a       *)
(* ZoneInfo (kind "zoneinfo", looked up per reading) or a fixed-offset     *)
(* tzinfo (kind "fixed": a pytz period instance or datetime.timezone), or  *)
(* a tzinfo that answers None (kind "none").                               *)
(***************************************************************************)
ZoneInfo(key) == [kind |-> "zoneinfo", key |-> key, tti |-> TTI(0, "", FALSE)]

FixedTz(key, tti) == [kind |-> "fixed", key |-> key, tti |-> tti]

NoTz == [kind |-> "none", key |-> "", tti |-> TTI(0, "", FALSE)]

Aware(wall, tz, fold) == [wall |-> wall, tz |-> tz, fold |-> fold]

\* the ttinfo an aware datetime reads its offset and abbreviation from
TtiFor(dt) ==
    IF dt.tz.kind = "zoneinfo"
    THEN TtiOf(dt.tz.key, PeriodAtWall(dt.tz.key, dt.wall, dt.fold))
    ELSE dt.tz.tti

\* aware_dt.utcoffset(), in seconds; None for a tzinfo that has none
utcoffset(dt) == IF dt.tz.kind = "none" THEN None ELSE Some(TtiFor(dt).off)

\* aware_dt.tzname()
tzname(dt) == TtiFor(dt).abbr

\* the instant of an aware datetime: aware_dt.timestamp()
timestamp(dt) == dt.wall - TtiFor(dt).off

\* ZoneInfo.fromutc: the reading of instant t in zone z, fold set in the
\* second pass through a repeated hour
ZiFoldAt(z, t, k) ==
    IF k > 0 /\ TtiOf(z, k - 1).off > TtiOf(z, k).off
             /\ t - ZoneRules(z).trans[k].utc < TtiOf(z, k - 1).off - TtiOf(z, k).off
    THEN 1 ELSE 0

ZiFromUtc(z, t) ==
    CHOOSE dt \in { Aware(t + TtiOf(z, k).off, ZoneInfo(z), ZiFoldAt(z, t, k)) :
                       k \in { PeriodAtUtc(z, t) } } : TRUE

\* pytz's DstTzInfo.fromutc: the reading carries the period's own tzinfo
PytzFromUtc(z, t) ==
    CHOOSE dt \in { Aware(t + tti.off, FixedTz(z, tti), 0) :
                       tti \in { TtiOf(z, PeriodAtUtc(z, t)) } } : TRUE

\* aware_dt.astimezone(ZoneInfo(z)): the same tzinfo object returns the
\* datetime itself, any other goes through UTC
ZiAstimezone(dt, z) ==
    IF dt.tz.kind = "zoneinfo" /\ dt.tz.key = z
    THEN dt
    ELSE CHOOSE r \in { ZiFromUtc(z, utc) : utc \in { timestamp(dt) } } : TRUE

\* aware_dt.astimezone(pytz.timezone(z))
PytzAstimezone(dt, z) ==
    CHOOSE r \in { PytzFromUtc(z, utc) : utc \in { timestamp(dt) } } : TRUE

(***************************************************************************)
(* Calendar fields of a wall-clock reading, for strftime.                  *)
(***************************************************************************)
DayOf(wall) == wall \div 86400

SecOfDay(wall) == wall % 86400

\* (year, month, day) of a day number counted from 1970-01-01
CivilFromDays(days) ==
    LET z   == days + 719468
        era == z \div 146097
        doe == z - era * 146097
        yoe == (doe - doe \div 1460 + doe \div 36524 - doe \div 146096) \div 365
        doy == doe - (365 * yoe + yoe \div 4 - yoe \div 100)
        mp  == (5 * doy + 2) \div 153
        d   == doy - (153 * mp + 2) \div 5 + 1
        m   == IF mp < 10 THEN mp + 3 ELSE mp - 9
        y   == yoe + era * 400 + (IF m <= 2 THEN 1 ELSE 0)
    IN  [year |-> y, month |-> m, day |-> d]

WeekdayNames == << "Monday", "Tuesday", "Wednesday", "Thursday", "Friday",
                   "Saturday", "Sunday" >>

\* dt.strftime('%A'); 1970-01-01 was a Thursday
strftime_A(dt) == WeekdayNames[((DayOf(dt.wall) + 3) % 7) + 1]

\* dt.strftime("%Y-%m-%d %H:%M:%S")
format_dt(dt) ==
    LET c == CivilFromDays(DayOf(dt.wall))
        s == SecOfDay(dt.wall)
    IN  Pad4(c.year) \o << "-" >> \o Pad2(c.month) \o << "-" >> \o Pad2(c.day)
          \o << " " >> \o Pad2(s \div 3600) \o << ":" >>
          \o Pad2((s % 3600) \div 60) \o << ":" >> \o Pad2(s % 60)

(***************************************************************************)
(* The offset formatter.                                                   *)
(***************************************************************************)
\* the sign-from-the-floor variant: hours and minutes taken from the signed
\* total by floor division
tz_info_floor_division(aware_dt) ==
    LET offset == utcoffset(aware_dt)
    IN  IF offset = None
        THEN << "U", "T", "C", "+/-", "0", "0", ":", "0", "0" >>
        ELSE LET total_seconds == offset[1]
                 sign    == IF total_seconds >= 0 THEN "+" ELSE "-"
                 hours   == Abs(total_seconds \div 3600)
                 minutes == Abs((total_seconds % 3600) \div 60)
             IN  << "U", "T", "C", sign >> \o Pad2(hours) \o << ":" >> \o Pad2(minutes)

\* the variant whose sign test is strict: zero comes out negative
tz_info_strict_sign(aware_dt) ==
    LET offset == utcoffset(aware_dt)
    IN  IF offset = None
        THEN << "U", "T", "C", "+/-", "0", "0", ":", "0", "0" >>
        ELSE LET total_seconds == offset[1]
                 sign      == IF total_seconds > 0 THEN "+" ELSE "-"
                 abs_total == Abs(total_seconds)
                 hours     == abs_total \div 3600
                 minutes   == (abs_total % 3600) \div 60
             IN  << "U", "T", "C", sign >> \o Pad2(hours) \o << ":" >> \o Pad2(minutes)

\* tz_info_from_aware_dt(aware_dt); "+/-" stands for the one plus-minus
\* character of the None branch
tz_info_from_aware_dt(aware_dt) ==
    LET offset == utcoffset(aware_dt)
    IN  IF offset = None
        THEN << "U", "T", "C", "+/-", "0", "0", ":", "0", "0" >>
        ELSE LET total_seconds == offset[1]
                 sign      == IF total_seconds >= 0 THEN "+" ELSE "-"
                 abs_total == Abs(total_seconds)
                 hours     == abs_total \div 3600
                 minutes   == (abs_total % 3600) \div 60
             IN  << "U", "T", "C", sign >> \o Pad2(hours) \o << ":" >> \o Pad2(minutes)

\* parseOffset of the design: the seconds a "UTC+HH:MM" / "UTC-HH:MM" string
\* names
parseOffset(s) ==
    LET hours   == DigitVal(s[5]) * 10 + DigitVal(s[6])
        minutes == DigitVal(s[8]) * 10 + DigitVal(s[9])
        total   == hours * 3600 + minutes * 60
    IN  IF s[4] = "-" THEN -total ELSE total

\* the strings of the form UTC+HH:MM and UTC-HH:MM, HH below 24, MM below 60
ValidOffsetStrings ==
    { << "U", "T", "C", sg, Digit(h \div 10), Digit(h % 10), ":",
         Digit(m \div 10), Digit(m % 10) >> :
        sg \in { "+", "-" }, h \in 0..23, m \in 0..59 }

\* the offsets (seconds, magnitude below 24 h) handed to the formatter:
\* every whole minute, and one second to either side of it
OffsetSamples ==
    { s \in (1 - 24 * 3600)..(24 * 3600 - 1) : s % 60 \in { 0, 1, 59 } }

\* an aware datetime whose tzinfo answers a given utcoffset()
DtWithOffset(off) ==
    IF off = None
    THEN Aware(0, NoTz, 0)
    ELSE Aware(0, FixedTz("", TTI(off[1], "", FALSE)), 0)

(***************************************************************************)
(* Values of the variables a specification does not use.                   *)
(***************************************************************************)
IdleStartup ==
    /\ timezones = << >>
    /\ host = None
    /\ now_utc = 0
    /\ offset_map = << >>
    /\ default_source_tz = None
    /\ detect_path = None
    /\ ui_error = FALSE
    /\ target_labels = << >>

IdleConv ==
    /\ USE_ZONEINFO = TRUE
    /\ source_tz_name = None
    /\ target_tz_names = << >>
    /\ chosen_dt_naive = 0
    /\ choice = 0
    /\ ambiguity_note = None
    /\ localized_source_dt = None
    /\ cards = << >>
    /\ rows = << >>

IdleFmt ==
    /\ fmt_in = None
    /\ fmt_text = None
    /\ fmt_out = None

(***************************************************************************)
(* Specification of the formatter: an offset is formatted, or a valid      *)
(* offset string is parsed and the result formatted.                       *)
(***************************************************************************)
InitFormat ==
    /\ IdleStartup
    /\ IdleConv
    /\ fmt_out = None
    /\ \/ /\ pc = "fmt_ready"
          /\ fmt_in \in { None } \cup { Some(s) : s \in OffsetSamples }
          /\ fmt_text = None
       \/ /\ pc = "fmt_parse"
          /\ fmt_in = None
          /\ fmt_text \in { Some(s) : s \in ValidOffsetStrings }

ParseOffset ==
    /\ pc = "fmt_parse"
    /\ fmt_in' = Some(parseOffset(fmt_text[1]))
    /\ pc' = "fmt_ready"
    /\ UNCHANGED << fmt_text, fmt_out, startupVars, convVars >>

FormatOffset ==
    /\ pc = "fmt_ready"
    /\ fmt_out' = Some(tz_info_from_aware_dt(DtWithOffset(fmt_in)))
    /\ pc' = "fmt_done"
    /\ UNCHANGED << fmt_in, fmt_text, startupVars, convVars >>

NextFormat == ParseOffset \/ FormatOffset

SpecFormat == InitFormat /\ [][NextFormat]_vars

(***************************************************************************)
(* Claims about the formatter.                                             *)
(***************************************************************************)
\* the formatter has formatted an offset (not the None branch)
Formatted == pc = "fmt_done" /\ fmt_in # None

\* C8: every offset of s seconds, |s| < 24h, is formatted as "UTC", a sign
\* that is "+" exactly when s >= 0, two digits reading |s| div 3600, ":",
\* two digits reading (|s| mod 3600) div 60; offset zero gives "UTC+00:00".
C8_OffsetFormat ==
    Formatted =>
        LET s == fmt_in[1]
            o == fmt_out[1]
        IN  /\ Len(o) = 9
            /\ SubSeq(o, 1, 3) = << "U", "T", "C" >>
            /\ o[4] \in { "+", "-" }
            /\ (o[4] = "+") <=> (s >= 0)
            /\ \A i \in { 5, 6, 8, 9 } : IsDigit(o[i])
            /\ o[7] = ":"
            /\ DigitVal(o[5]) * 10 + DigitVal(o[6]) = Abs(s) \div 3600
            /\ DigitVal(o[8]) * 10 + DigitVal(o[9]) = (Abs(s) % 3600) \div 60
            /\ (s = 0 => o = << "U", "T", "C", "+", "0", "0", ":", "0", "0" >>)

\* C8 witness: a negative offset that is not a whole number of hours
\* (-03:30) has been formatted
C8_Witness ==
    /\ Formatted
    /\ fmt_text = None
    /\ fmt_in = Some(-12600)
    /\ fmt_out = Some(<< "U", "T", "C", "-", "0", "3", ":", "3", "0" >>)

\* a valid offset string has been parsed and the result formatted
RoundTripped == pc = "fmt_done" /\ fmt_text # None

\* C9 as stated: for every valid string s of the form UTC+HH:MM or
\* UTC-HH:MM, formatting the parsed seconds gives back exactly s.
C9_Original == RoundTripped => fmt_out = fmt_text

\* C9 amended: for every valid string s other than "UTC-00:00" (negative
\* zero), formatting the parsed seconds gives back exactly s; "UTC-00:00"
\* comes back as "UTC+00:00".
C9_RoundTrip ==
    RoundTripped =>
        IF fmt_text = Some(<< "U", "T", "C", "-", "0", "0", ":", "0", "0" >>)
        THEN fmt_out = Some(<< "U", "T", "C", "+", "0", "0", ":", "0", "0" >>)
        ELSE fmt_out = fmt_text

\* C9 witness: a negative half-hour offset string came back unchanged
C9_Witness ==
    /\ RoundTripped
    /\ fmt_text = Some(<< "U", "T", "C", "-", "0", "9", ":", "3", "0" >>)
    /\ fmt_in = Some(-34200)
    /\ fmt_out = fmt_text

(***************************************************************************)
(* pytz: tzobj.localize(dt, is_dst).  is_dst is "None", "True" or "False". *)
(* The result is [ok, dt] or [ok = FALSE, err] for the two exceptions.     *)
(***************************************************************************)
\* the periods pytz tries for a wall-clock reading: those in force a day
\* before and a day after it, kept when the reading is valid in them
PytzPossible(z, naive) ==
    { k \in { PeriodAtUtc(z, naive - 86400), PeriodAtUtc(z, naive + 86400) } :
          PeriodAtUtc(z, naive - TtiOf(z, k).off) = k }

PytzIn(z, naive, k) == Aware(naive, FixedTz(z, TtiOf(z, k)), 0)

\* localize once the possible periods are known
RECURSIVE PytzLocalize(_, _, _)
PytzResolve(z, naive, is_dst, possible) ==
    LET filtered == { k \in possible : TtiOf(z, k).dst = (is_dst = "True") }
        pool     == IF filtered = {} THEN possible ELSE filtered
        utcOf(k) == naive - TtiOf(z, k).off
        first    == CHOOSE k \in pool : \A j \in pool : utcOf(k) <= utcOf(j)
        last     == CHOOSE k \in pool : \A j \in pool : utcOf(k) >= utcOf(j)
    IN  IF Cardinality(possible) = 1
        THEN [ok |-> TRUE, dt |-> PytzIn(z, naive, CHOOSE k \in possible : TRUE), err |-> ""]
        ELSE IF possible = {}
        THEN IF is_dst = "None"
             THEN [ok |-> FALSE, dt |-> None, err |-> "NonExistentTimeError"]
             ELSE LET d == IF is_dst = "True" THEN 6 * 3600 ELSE -(6 * 3600)
                  IN  [ok |-> TRUE,
                       dt |-> Aware(naive, PytzLocalize(z, naive + d, is_dst).dt.tz, 0),
                       err |-> ""]
        ELSE IF is_dst = "None"
        THEN [ok |-> FALSE, dt |-> None, err |-> "AmbiguousTimeError"]
        ELSE IF Cardinality(filtered) = 1
        THEN [ok |-> TRUE, dt |-> PytzIn(z, naive, CHOOSE k \in filtered : TRUE), err |-> ""]
        ELSE [ok |-> TRUE,
              dt |-> PytzIn(z, naive, IF is_dst = "True" THEN first ELSE last),
              err |-> ""]

PytzLocalize(z, naive, is_dst) ==
    CHOOSE r \in { PytzResolve(z, naive, is_dst, possible) :
                      possible \in { PytzPossible(z, naive) } } : TRUE

(***************************************************************************)
(* Manual conversion: chosen_dt_naive to localized_source_dt.  c is the    *)
(* index picked in the radio the branch shows (0, the default, when the    *)
(* user does not touch it).  The result is [dt, note, radio]: the aware    *)
(* datetime, the radio's caption kind, and whether a radio was shown.      *)
(***************************************************************************)
\* lines 298-312; the except branch needs ZoneInfo(source_tz_name) to
\* raise, which line 190 would have done first
ZoneinfoLocalize(tz, naive, c) ==
    LET aware0 == Aware(naive, ZoneInfo(tz), 0)
        aware1 == Aware(naive, ZoneInfo(tz), 1)
    IN  IF utcoffset(aware0) # utcoffset(aware1)
        THEN [dt |-> IF c = 0 THEN aware0 ELSE aware1, note |-> "Ambiguous", radio |-> TRUE]
        ELSE [dt |-> aware0, note |-> "", radio |-> FALSE]

\* the pytz branch replaced by naive.replace(tzinfo=tzobj): the zone's
\* first period whatever the date
PytzManualLocalizeReplace(tz, naive, c) ==
    [dt |-> Aware(naive, FixedTz(tz, ZoneRules(tz).init), 0), note |-> "", radio |-> FALSE]

\* lines 316-337
PytzManualLocalize(tz, naive, c) ==
    CHOOSE res \in {
        IF r.ok
        THEN [dt |-> r.dt, note |-> "", radio |-> FALSE]
        ELSE IF r.err = "AmbiguousTimeError"
        THEN [dt |-> PytzLocalize(tz, naive, IF c = 1 THEN "True" ELSE "False").dt,
              note |-> "Ambiguous", radio |-> TRUE]
        ELSE [dt |-> PytzLocalize(tz, IF c = 0 THEN naive + 3600 ELSE naive - 3600,
                                  "False").dt,
              note |-> "Non-existent", radio |-> TRUE]
        : r \in { PytzLocalize(tz, naive, "None") } } : TRUE

ManualLocalize(zi, tz, naive, c) ==
    IF zi THEN ZoneinfoLocalize(tz, naive, c) ELSE PytzManualLocalize(tz, naive, c)

\* aware_dt.astimezone(tzobj) on the path in use
astimezone(zi, dt, z) == IF zi THEN ZiAstimezone(dt, z) ELSE PytzAstimezone(dt, z)

\* datetime.now(ZoneInfo('UTC')).astimezone(source_tz) / datetime.now(source_tz)
NowIn(zi, z, t) == IF zi THEN ZiFromUtc(z, t) ELSE PytzFromUtc(z, t)

\* render_card: what the card shows
render_card(zi, aware_dt, tz) ==
    CHOOSE card \in {
        [Timezone  |-> tz,
         Abbrev    |-> tzname(dt_in_tz),
         LocalTime |-> format_dt(dt_in_tz),
         Weekday   |-> strftime_A(dt_in_tz),
         Offset    |-> tz_info_from_aware_dt(dt_in_tz)]
        : dt_in_tz \in { astimezone(zi, aware_dt, tz) } } : TRUE

\* a CSV row (the ISO column is left out)
Row(label, tz, dt) ==
    [Label     |-> label,
     Timezone  |-> tz,
     Abbrev    |-> tzname(dt),
     LocalTime |-> format_dt(dt),
     Weekday   |-> strftime_A(dt),
     Epoch     |-> timestamp(dt),
     Offset    |-> tz_info_from_aware_dt(dt)]

\* a target row built from the home wall-clock reading as if it were UTC
TargetRowFromWall(zi, dt, tgt_name) ==
    CHOOSE row \in { Row("Target Clock", tgt_name, dt_in_tgt) :
                        dt_in_tgt \in { NowIn(zi, tgt_name, dt.wall) } } : TRUE

\* lines 361-376: one target's row
TargetRow(zi, dt, tgt_name) ==
    CHOOSE row \in { Row("Target Clock", tgt_name, dt_in_tgt) :
                        dt_in_tgt \in { astimezone(zi, dt, tgt_name) } } : TRUE

(***************************************************************************)
(* Specification of the manual conversion.                                 *)
(***************************************************************************)
\* the zones offered as Home Clock and Other Clocks
ConvZones == { "UTC", "Asia/Kolkata", "America/New_York",
               "America/Los_Angeles", "Australia/Lord_Howe" }

Steps == { j * 900 : j \in (-Span)..Span }

\* wall-clock readings the user enters: quarter hours around the start of
\* every gap and repeated hour of the zone, and 2024-06-01 15:00:00
CivilSamples(z) ==
    { WallOfTrans(z, k, 1) + d : k \in 1..NTrans(z), d \in Steps }
        \cup { 1717254000 }

\* clock readings: quarter hours around every transition of the zone, and
\* 2024-06-01 09:30:00 UTC
NowSamples(z) ==
    { ZoneRules(z).trans[k].utc + d : k \in 1..NTrans(z), d \in Steps }
        \cup { 1717234200 }

\* the default date and time of the inputs: now in the home zone, naive
DefaultNaive(zi, z, t) == NowIn(zi, z, t).wall

InitConv ==
    /\ IdleStartup
    /\ IdleFmt
    /\ pc = "conv_start"
    /\ USE_ZONEINFO \in BOOLEAN
    /\ source_tz_name \in { Some(z) : z \in ConvZones }
    /\ target_tz_names \in ListsOver(ConvZones \ { source_tz_name[1] }, 0, MaxTargets)
    /\ chosen_dt_naive = DefaultNaive(USE_ZONEINFO, source_tz_name[1], 1717234200)
    /\ choice = 0
    /\ ambiguity_note = None
    /\ localized_source_dt = None
    /\ cards = << >>
    /\ rows = << >>

\* st.date_input / st.time_input: the user keeps the default (now in the
\* home zone) or enters a date and time
PickDateTime ==
    /\ pc = "conv_start"
    /\ \/ \E t \in NowSamples(source_tz_name[1]) :
            /\ now_utc' = t
            /\ chosen_dt_naive' = DefaultNaive(USE_ZONEINFO, source_tz_name[1], t)
       \/ \E w \in CivilSamples(source_tz_name[1]) :
            /\ now_utc' = 1717234200
            /\ chosen_dt_naive' = w
    /\ pc' = "conv_chosen"
    /\ UNCHANGED << timezones, host, offset_map, default_source_tz, detect_path,
                    ui_error, target_labels, USE_ZONEINFO, source_tz_name,
                    target_tz_names,
                    choice, ambiguity_note, localized_source_dt, cards, rows,
                    fmtVars >>

\* lines 339-340, 361-362: the home card, then one card per target
Cards(zi, dt, src, targets) ==
    << render_card(zi, dt, src) >>
        \o [i \in 1..Len(targets) |-> render_card(zi, dt, targets[i])]

\* lines 343-376: no rows without a target; else the home row, then one
\* row per target
Rows(zi, dt, src, targets) ==
    IF targets = << >>
    THEN << >>
    ELSE << Row("Home Clock", src, dt) >>
           \o [i \in 1..Len(targets) |-> TargetRow(zi, dt, targets[i])]

\* the state the manual branch leaves, given what the localization gave
Converted(r, c) ==
    /\ (c = 1 => r.radio)
    /\ choice' = c
    /\ ambiguity_note' = IF r.radio THEN Some(r.note) ELSE None
    /\ localized_source_dt' = Some(r.dt)
    /\ cards' = Cards(USE_ZONEINFO, r.dt, source_tz_name[1], target_tz_names)
    /\ rows' = Rows(USE_ZONEINFO, r.dt, source_tz_name[1], target_tz_names)

\* lines 291-376: the manual branch of one script run; c is the radio index
ManualConversion ==
    /\ pc = "conv_chosen"
    /\ \E c \in { 0, 1 } :
         \E r \in { ManualLocalize(USE_ZONEINFO, source_tz_name[1], chosen_dt_naive, c) } :
            Converted(r, c)
    /\ pc' = "conv_done"
    /\ UNCHANGED << startupVars, USE_ZONEINFO, source_tz_name, target_tz_names,
                    chosen_dt_naive, fmtVars >>

NextConv == PickDateTime \/ ManualConversion

SpecConv == InitConv /\ [][NextConv]_vars

(***************************************************************************)
(* Claims about the manual conversion.  Their vocabulary is defined on the *)
(* zone database alone: the instants whose reading in a zone is a given    *)
(* wall-clock time.                                                        *)
(***************************************************************************)
InstantsOf(z, wall) ==
    { wall - TtiOf(z, k).off : k \in { j \in 0..NTrans(z) :
                                          PeriodAtUtc(z, wall - TtiOf(z, j).off) = j } }

IsAmbiguous(z, wall) == Cardinality(InstantsOf(z, wall)) >= 2

IsNonExistent(z, wall) == InstantsOf(z, wall) = {}

IsNormal(z, wall) == Cardinality(InstantsOf(z, wall)) = 1

EarlierOf(z, wall) == CHOOSE t \in InstantsOf(z, wall) : \A u \in InstantsOf(z, wall) : t <= u

LaterOf(z, wall) == CHOOSE t \in InstantsOf(z, wall) : \A u \in InstantsOf(z, wall) : t >= u

\* the instant of a reading that is neither ambiguous nor non-existent
TheInstant(z, wall) == CHOOSE t \in InstantsOf(z, wall) : TRUE

\* the reading of an instant in a zone
ReadingOf(z, t) == t + TtiOf(z, PeriodAtUtc(z, t)).off

ConvDone == pc = "conv_done"

Home == source_tz_name[1]

\* the instant the manual conversion arrived at
HomeInstant == timestamp(localized_source_dt[1])

\* the instant the manual conversion arrives at with radio index c
InstantWith(c) == timestamp(ManualLocalize(USE_ZONEINFO, Home, chosen_dt_naive, c).dt)

\* C4 as stated: for an ambiguous home time the default choice gives the
\* earlier occurrence, the "Later" choice the later one, and the two
\* instants are exactly one hour apart, on the zoneinfo and the pytz path.
C4_Original ==
    (ConvDone /\ IsAmbiguous(Home, chosen_dt_naive)) =>
        /\ InstantWith(0) = EarlierOf(Home, chosen_dt_naive)
        /\ InstantWith(1) = LaterOf(Home, chosen_dt_naive)
        /\ InstantWith(1) - InstantWith(0) = 3600
        /\ HomeInstant = InstantWith(choice)

\* C5 as stated: for a non-existent home time c the default choice gives
\* the instant of localizing c + 1 hour, the other choice the instant of
\* localizing c - 1 hour.
C5_Original ==
    (/\ ConvDone
     /\ IsNonExistent(Home, chosen_dt_naive)
     /\ IsNormal(Home, chosen_dt_naive + 3600)
     /\ IsNormal(Home, chosen_dt_naive - 3600)) =>
        /\ choice = 0 => HomeInstant = TheInstant(Home, chosen_dt_naive + 3600)
        /\ choice = 1 => HomeInstant = TheInstant(Home, chosen_dt_naive - 3600)

\* C6: round trip.  When the time converted is the reading of the clock's
\* instant in the home zone (the default date and time), and that reading
\* is neither ambiguous nor non-existent, the conversion recovers the
\* instant.
C6_RoundTrip ==
    (/\ ConvDone
     /\ chosen_dt_naive = ReadingOf(Home, now_utc)
     /\ IsNormal(Home, chosen_dt_naive)) =>
        /\ choice = 0
        /\ HomeInstant = now_utc

\* C6 witness: the instant New York's clocks spring forward (03:00 EDT),
\* read in New York and converted back on the pytz path
C6_Witness ==
    /\ ConvDone
    /\ ~USE_ZONEINFO
    /\ Home = "America/New_York"
    /\ now_utc = 1678604400
    /\ chosen_dt_naive = ReadingOf(Home, now_utc)
    /\ IsNormal(Home, chosen_dt_naive)
    /\ HomeInstant = now_utc

\* what a target row must show for the instant t
ProjectedRow(tgt, t, r) ==
    LET tti  == TtiOf(tgt, PeriodAtUtc(tgt, t))
        wall == t + tti.off
    IN  /\ r.Timezone = tgt
        /\ r.LocalTime = format_dt(Aware(wall, NoTz, 0))
        /\ r.Weekday = WeekdayNames[((wall \div 86400 + 3) % 7) + 1]
        /\ r.Abbrev = tti.abbr
        /\ r.Offset = tz_info_from_aware_dt(DtWithOffset(Some(tti.off)))
        /\ r.Epoch = t

\* home Asia/Kolkata 2024-06-01 15:00:00, first target America/Los_Angeles
Scenario ==
    /\ ConvDone
    /\ Home = "Asia/Kolkata"
    /\ chosen_dt_naive = 1717254000
    /\ target_tz_names # << >>
    /\ target_tz_names[1] = "America/Los_Angeles"

ScenarioRow(r) ==
    /\ r.LocalTime = << "2", "0", "2", "4", "-", "0", "6", "-", "0", "1", " ",
                        "0", "2", ":", "3", "0", ":", "0", "0" >>
    /\ r.Abbrev = "PDT"
    /\ r.Offset = << "U", "T", "C", "-", "0", "7", ":", "0", "0" >>

\* C7: every target row is the projection of the one instant of the
\* localized home time: local time = instant + the target's offset at that
\* instant, abbreviation, offset string and weekday those of that local
\* time, Epoch equal to the home row's; and Asia/Kolkata 2024-06-01
\* 15:00:00 shown in America/Los_Angeles is 2024-06-01 02:30:00 PDT
\* UTC-07:00.
C7_TargetRows ==
    (ConvDone /\ target_tz_names # << >>) =>
        /\ Len(rows) = Len(target_tz_names) + 1
        /\ rows[1].Epoch = HomeInstant
        /\ \A i \in 1..Len(target_tz_names) :
              /\ ProjectedRow(target_tz_names[i], HomeInstant, rows[i + 1])
              /\ rows[i + 1].Epoch = rows[1].Epoch
        /\ Scenario => ScenarioRow(rows[2])

\* C7 witness: the scenario has been converted, both rows built
C7_Witness ==
    /\ Scenario
    /\ Len(rows) = 2
    /\ ScenarioRow(rows[2])
    /\ rows[2].Weekday = "Saturday"
    /\ rows[2].Epoch = 1717234200

\* what the manual conversion on path zi makes of the chosen time: whether
\* it shows a radio, and which one
Classification(zi) ==
    CHOOSE cl \in { << r.radio, r.note >> :
                       r \in { ManualLocalize(zi, Home, chosen_dt_naive, 0) } } : TRUE

\* C11 as stated: a home time in a DST gap is classified as non-existent
\* (the shift forward/backward radio), a home time in a DST fold as
\* ambiguous (the earlier/later radio), neither as the other or as normal,
\* and the zoneinfo and the pytz path classify alike.
C11_Original ==
    ConvDone =>
        /\ IsNonExistent(Home, chosen_dt_naive) => ambiguity_note = Some("Non-existent")
        /\ IsAmbiguous(Home, chosen_dt_naive) => ambiguity_note = Some("Ambiguous")
        /\ Classification(TRUE) = Classification(FALSE)

(***************************************************************************)
(* Startup: the catalog, the offset snapshot, the detector and the Home    *)
(* Clock selectbox.                                                        *)
(*                                                                         *)
(* host is what the platform answers:                                      *)
(*   env      os.environ.get("DEFAULT_SOURCE_TZ"): None or a string        *)
(*   zone     the zone the host is configured with                         *)
(*   tzlocal  "missing": import tzlocal fails                              *)
(*            "name":    get_localzone_name() returns host.zone            *)
(*            "zone":    get_localzone_name() raises, get_localzone()      *)
(*                       has .zone = host.zone                             *)
(*            "nozone":  get_localzone_name() raises, get_localzone() has  *)
(*                       no .zone                                          *)
(*            "raises":  both raise                                        *)
(*   attrs    the attribute ("zone", "key" or "none") the tzinfo of        *)
(*            datetime.now().astimezone() carries, holding host.zone       *)
(*   astz     "ok", or "raises" when datetime.now().astimezone() raises    *)
(*   missing  the zones ZoneInfo(name) does not find                       *)
(***************************************************************************)
\* characters of the catalog's zone names, for the "in" substring test
NameChars(z) ==
    CASE z = "UTC" -> << "U", "T", "C" >>
      [] z = "Asia/Kolkata" ->
            << "A", "s", "i", "a", "/", "K", "o", "l", "k", "a", "t", "a" >>
      [] z = "Asia/Colombo" ->
            << "A", "s", "i", "a", "/", "C", "o", "l", "o", "m", "b", "o" >>
      [] z = "America/New_York" ->
            << "A", "m", "e", "r", "i", "c", "a", "/", "N", "e", "w", "_",
               "Y", "o", "r", "k" >>
      [] z = "America/Indiana/Indianapolis" ->
            << "A", "m", "e", "r", "i", "c", "a", "/", "I", "n", "d", "i",
               "a", "n", "a", "/", "I", "n", "d", "i", "a", "n", "a", "p",
               "o", "l", "i", "s" >>
      [] z = "America/St_Johns" ->
            << "A", "m", "e", "r", "i", "c", "a", "/", "S", "t", "_", "J",
               "o", "h", "n", "s" >>
      [] z = "Pacific/Marquesas" ->
            << "P", "a", "c", "i", "f", "i", "c", "/", "M", "a", "r", "q",
               "u", "e", "s", "a", "s" >>
      [] z = "Australia/Lord_Howe" ->
            << "A", "u", "s", "t", "r", "a", "l", "i", "a", "/", "L", "o",
               "r", "d", "_", "H", "o", "w", "e" >>

\* kw in name, both as characters (Python's substring test)
Contains(name, kw) ==
    \E i \in 1..(Len(name) - Len(kw) + 1) : SubSeq(name, i, i + Len(kw) - 1) = kw

\* what datetime.now().astimezone() reads on the host at instant t
HostTti(h, t) == TtiOf(h.zone, PeriodAtUtc(h.zone, t))

\* build_offset_map: the (tz, seconds or None) items in catalog order
build_offset_map(tzs, zi, missing, t) ==
    [i \in 1..Len(tzs) |->
        << tzs[i],
           IF zi /\ (tzs[i] \in missing \/ "UTC" \in missing)
           THEN None
           ELSE Some(TtiOf(tzs[i], PeriodAtUtc(tzs[i], t)).off) >> ]

\* offset_map.get(tz)
OffsetGet(om, tz) ==
    IF \E i \in 1..Len(om) : om[i][1] = tz
    THEN om[CHOOSE i \in 1..Len(om) : om[i][1] = tz][2]
    ELSE None

\* step 1 without the membership test
EnvStepNoCheck(tzs, h) ==
    IF h.env # None /\ h.env[1] # ""
    THEN Some(<< h.env[1], "env" >>)
    ELSE None

\* 1) env override (lines 58-61)
EnvStep(tzs, h) ==
    IF h.env # None /\ h.env[1] # "" /\ InList(h.env[1], tzs)
    THEN Some(<< h.env[1], "env" >>)
    ELSE None

\* 2) tzlocal (lines 63-78)
TzlocalStep(tzs, h) ==
    IF h.tzlocal = "name" /\ InList(h.zone, tzs)
    THEN Some(<< h.zone, "tzlocal_name" >>)
    ELSE IF h.tzlocal = "zone" /\ InList(h.zone, tzs)
    THEN Some(<< h.zone, "tzlocal_zone" >>)
    ELSE None

\* 3) astimezone() attributes, then the exact tzname (lines 80-97)
AstimezoneStep(tzs, h, t) ==
    IF h.astz = "raises"
    THEN None
    ELSE IF h.attrs \in { "zone", "key" } /\ InList(h.zone, tzs)
    THEN Some(<< h.zone, "astimezone_attr" >>)
    ELSE IF HostTti(h, t).abbr # "" /\ InList(HostTti(h, t).abbr, tzs)
    THEN Some(<< HostTti(h, t).abbr, "astimezone_tzname_exact" >>)
    ELSE None

\* the abbreviation table (lines 100-105)
abbrev_map(abbr) ==
    CASE abbr = "IST" -> Some("Asia/Kolkata")
      [] abbr = "CST" -> Some("America/Chicago")
      [] abbr = "EST" -> Some("America/New_York")
      [] abbr = "PST" -> Some("America/Los_Angeles")
      [] OTHER -> None

\* 4) abbreviation mapping (lines 106-113)
AbbrevStep(tzs, h, t) ==
    IF h.astz = "raises"
    THEN None
    ELSE IF abbrev_map(HostTti(h, t).abbr) # None
            /\ InList(abbrev_map(HostTti(h, t).abbr)[1], tzs)
    THEN Some(<< abbrev_map(HostTti(h, t).abbr)[1], "abbrev_map" >>)
    ELSE None

\* matches = [tz for tz, sec in offset_map.items() if sec == local_seconds]
Matches(om, local_seconds) ==
    SelectSeq(om, LAMBDA e : e[2] = Some(local_seconds))

HasKeyword(tz) ==
    \/ Contains(NameChars(tz), << "K", "o", "l", "k", "a", "t", "a" >>)
    \/ Contains(NameChars(tz), << "I", "n", "d", "i", "a" >>)

\* the choice among the matches without the scan for a name holding
\* "Kolkata" or "India"
PickMatchNoKeyword(matches) ==
    IF \E i \in 1..Len(matches) : matches[i][1] = "Asia/Kolkata"
    THEN Some(<< "Asia/Kolkata", "offset_prefer" >>)
    ELSE IF matches # << >>
    THEN Some(<< matches[1][1], "offset_first_match" >>)
    ELSE None

\* the choice among the matches (lines 121-129)
PickMatch(matches) ==
    IF \E i \in 1..Len(matches) : matches[i][1] = "Asia/Kolkata"
    THEN Some(<< "Asia/Kolkata", "offset_prefer" >>)
    ELSE IF \E i \in 1..Len(matches) : HasKeyword(matches[i][1])
    THEN Some(<< matches[CHOOSE i \in 1..Len(matches) :
                            /\ HasKeyword(matches[i][1])
                            /\ \A j \in 1..(i - 1) : ~HasKeyword(matches[j][1])][1],
                 "offset_name_match" >>)
    ELSE IF matches # << >>
    THEN Some(<< matches[1][1], "offset_first_match" >>)
    ELSE None

\* 5) match by current UTC offset (lines 115-131)
OffsetStep(om, h, t) ==
    IF h.astz = "raises"
    THEN None
    ELSE PickMatch(Matches(om, HostTti(h, t).off))

\* the detector with steps 4 and 5 exchanged
detect_offset_before_abbrev(tzs, om, h, t) ==
    IF EnvStep(tzs, h) # None THEN EnvStep(tzs, h)[1]
    ELSE IF TzlocalStep(tzs, h) # None THEN TzlocalStep(tzs, h)[1]
    ELSE IF AstimezoneStep(tzs, h, t) # None THEN AstimezoneStep(tzs, h, t)[1]
    ELSE IF OffsetStep(om, h, t) # None THEN OffsetStep(om, h, t)[1]
    ELSE IF AbbrevStep(tzs, h, t) # None THEN AbbrevStep(tzs, h, t)[1]
    ELSE << "UTC", "fallback" >>

\* detect_local_timezone_candidate(timezones, offset_map) on host h at
\* instant t: the (zone, tag) it returns
detect_local_timezone_candidate(tzs, om, h, t) ==
    IF EnvStep(tzs, h) # None THEN EnvStep(tzs, h)[1]
    ELSE IF TzlocalStep(tzs, h) # None THEN TzlocalStep(tzs, h)[1]
    ELSE IF AstimezoneStep(tzs, h, t) # None THEN AstimezoneStep(tzs, h, t)[1]
    ELSE IF AbbrevStep(tzs, h, t) # None THEN AbbrevStep(tzs, h, t)[1]
    ELSE IF OffsetStep(om, h, t) # None THEN OffsetStep(om, h, t)[1]
    ELSE << "UTC", "fallback" >>

\* the zones a catalog handed to the detector is drawn from
CatalogZones == { "UTC", "Asia/Kolkata", "Asia/Colombo", "America/New_York",
                  "America/Indiana/Indianapolis" }

\* the zones a host is configured with
HostZones == { "UTC", "Asia/Calcutta", "Asia/Kolkata", "Asia/Colombo",
               "America/New_York" }

\* values of DEFAULT_SOURCE_TZ: unset, empty, no zone at all, a zone
EnvValues == { None, Some(""), Some("Mars/Olympus"), Some("Asia/Kolkata") }

Hosts ==
    [env     : EnvValues,
     zone    : HostZones,
     tzlocal : { "missing", "name", "zone", "nozone", "raises" },
     attrs   : { "none", "zone", "key" },
     astz    : { "ok", "raises" },
     missing : { {}, { "Asia/Colombo" }, AllZones }]

\* the clock at startup: 2023-01-15 12:00 UTC or 2023-07-15 12:00 UTC
StartupInstants == { 1673784000, 1689422400 }

InitStartup ==
    /\ IdleFmt
    /\ pc = "start"
    /\ timezones \in ListsOver(CatalogZones, 1, MaxCat)
    /\ host \in { Some(h) : h \in Hosts }
    /\ USE_ZONEINFO \in BOOLEAN
    /\ (~USE_ZONEINFO => host[1].missing = {})
    /\ now_utc \in StartupInstants
    /\ offset_map = << >>
    /\ default_source_tz = None
    /\ detect_path = None
    /\ ui_error = FALSE
    /\ target_labels = << >>
    /\ source_tz_name = None
    /\ target_tz_names = << >>
    /\ chosen_dt_naive = 0
    /\ choice = 0
    /\ ambiguity_note = None
    /\ localized_source_dt = None
    /\ cards = << >>
    /\ rows = << >>

\* line 155
BuildOffsetMap ==
    /\ pc = "start"
    /\ offset_map' = build_offset_map(timezones, USE_ZONEINFO, host[1].missing, now_utc)
    /\ pc' = "built"
    /\ UNCHANGED << timezones, host, now_utc, default_source_tz, detect_path,
                    ui_error, target_labels, convVars, fmtVars >>

\* line 157
Detect ==
    /\ pc = "built"
    /\ \E r \in { detect_local_timezone_candidate(timezones, offset_map, host[1], now_utc) } :
          /\ default_source_tz' = Some(r[1])
          /\ detect_path' = Some(r[2])
    /\ pc' = "detected"
    /\ UNCHANGED << timezones, host, now_utc, offset_map, ui_error,
                    target_labels, convVars, fmtVars >>

\* label_for(tz), lines 176-183; // and % are Python's: the quotient is
\* rounded down and the remainder is never negative, as \div and % are
label_for(om, tz) ==
    LET sec == OffsetGet(om, tz)
    IN  IF sec = None
        THEN NameChars(tz)
        ELSE LET h    == sec[1] \div 3600
                 m    == Abs((sec[1] % 3600) \div 60)
                 sign == IF sec[1] >= 0 THEN "+" ELSE "-"
             IN  NameChars(tz) \o << " ", "(", "U", "T", "C", sign >>
                   \o Pad2(Abs(h)) \o << ":" >> \o Pad2(m) \o << ")" >>

\* line 185
available_targets(tzs, src) == SelectSeq(tzs, LAMBDA tz : tz # src)

\* line 186: the label of every option of the Other Clocks multiselect
TargetLabels(tzs, om, src) ==
    CHOOSE ls \in { [i \in 1..Len(av) |-> label_for(om, av[i])] :
                       av \in { available_targets(tzs, src) } } : TRUE

\* the index the Home Clock selectbox starts at (line 172), 1-based
HomeIndex(tzs, default) == IF InList(default, tzs) THEN IndexOf(default, tzs) ELSE 1

\* lines 169-192: the Home Clock selectbox shows its initial selection and
\* the script looks the zone up; a failed lookup is an uncaught exception,
\* which the page shows
SelectHome ==
    /\ pc = "detected"
    /\ source_tz_name' = Some(timezones[HomeIndex(timezones, default_source_tz[1])])
    /\ ui_error' = (USE_ZONEINFO /\ source_tz_name'[1] \in host[1].missing)
    /\ target_labels' = TargetLabels(timezones, offset_map, source_tz_name'[1])
    /\ pc' = "selected"
    /\ UNCHANGED << timezones, host, now_utc, offset_map, default_source_tz,
                    detect_path, USE_ZONEINFO, target_tz_names, chosen_dt_naive,
                    choice, ambiguity_note, localized_source_dt, cards, rows,
                    fmtVars >>

NextStartup == BuildOffsetMap \/ Detect \/ SelectHome

SpecStartup == InitStartup /\ [][NextStartup]_vars

(***************************************************************************)
(* Startup with a catalog that holds zones west of Greenwich whose offset  *)
(* is not a whole number of hours, for the labels of the Other Clocks      *)
(* multiselect.                                                            *)
(***************************************************************************)
LabelZones == { "UTC", "Asia/Kolkata", "America/New_York", "America/St_Johns",
                "Pacific/Marquesas", "Australia/Lord_Howe" }

\* hosts set to UTC that report no zone name
LabelHosts ==
    { h \in Hosts : /\ h.env = None
                    /\ h.zone = "UTC"
                    /\ h.tzlocal = "missing"
                    /\ h.attrs = "none"
                    /\ h.astz = "ok"
                    /\ h.missing # AllZones }

InitLabel ==
    /\ IdleFmt
    /\ pc = "start"
    /\ timezones \in ListsOver(LabelZones, 1, MaxCat)
    /\ host \in { Some(h) : h \in LabelHosts }
    /\ USE_ZONEINFO \in BOOLEAN
    /\ (~USE_ZONEINFO => host[1].missing = {})
    /\ now_utc \in StartupInstants
    /\ offset_map = << >>
    /\ default_source_tz = None
    /\ detect_path = None
    /\ ui_error = FALSE
    /\ target_labels = << >>
    /\ source_tz_name = None
    /\ target_tz_names = << >>
    /\ chosen_dt_naive = 0
    /\ choice = 0
    /\ ambiguity_note = None
    /\ localized_source_dt = None
    /\ cards = << >>
    /\ rows = << >>

SpecLabel == InitLabel /\ [][NextStartup]_vars

(***************************************************************************)
(* Claims about the detector and the startup.                              *)
(***************************************************************************)
Detected == pc \in { "detected", "selected" }

H == host[1]

Zone == default_source_tz[1]

Tag == detect_path[1]

\* the heuristic a tag names: 1 env override, 2 platform-reported zone name,
\* 3 abbreviation table, 4 offset match, 5 the "UTC" fallback
LevelOf(tag) ==
    CASE tag = "env" -> 1
      [] tag \in { "tzlocal_name", "tzlocal_zone", "astimezone_attr",
                   "astimezone_tzname_exact" } -> 2
      [] tag = "abbrev_map" -> 3
      [] tag \in { "offset_prefer", "offset_name_match", "offset_first_match" } -> 4
      [] tag = "fallback" -> 5

\* the override names a catalog zone
EnvYields == H.env # None /\ H.env[1] # "" /\ InList(H.env[1], timezones)

\* the names the platform reports, in the order they are asked for: what
\* tzlocal answers, the tzinfo attribute, the tzname
PlatformNames ==
    (IF H.tzlocal \in { "name", "zone" } THEN << H.zone >> ELSE << >>)
      \o (IF H.astz = "raises" THEN << >>
          ELSE (IF H.attrs = "none" THEN << >> ELSE << H.zone >>)
                 \o << HostTti(H, now_utc).abbr >>)

\* the platform-reported names that are catalog zones
PlatformYield == SelectSeq(PlatformNames, LAMBDA n : InList(n, timezones))

\* the abbreviation table's zone for the host's abbreviation, if in the catalog
AbbrevYield ==
    IF H.astz = "ok" /\ abbrev_map(HostTti(H, now_utc).abbr) # None
                     /\ InList(abbrev_map(HostTti(H, now_utc).abbr)[1], timezones)
    THEN abbrev_map(HostTti(H, now_utc).abbr)
    ELSE None

\* the catalog zones whose snapshot offset is the host's current offset
OffsetCandidates ==
    IF H.astz = "raises" THEN {}
    ELSE { timezones[i] : i \in { j \in 1..Len(timezones) :
               OffsetGet(offset_map, timezones[j]) = Some(HostTti(H, now_utc).off) } }

\* the highest-priority heuristic that yields a catalog zone
WinningLevel ==
    IF EnvYields THEN 1
    ELSE IF PlatformYield # << >> THEN 2
    ELSE IF AbbrevYield # None THEN 3
    ELSE IF OffsetCandidates # {} THEN 4
    ELSE 5

\* C1 as stated: the detector always returns a member of the catalog list
\* it was given, the "UTC" fallback included.
C1_Original == Detected => (detect_path # None /\ InList(Zone, timezones))

\* C2: the returned tag names the highest-priority heuristic that yields a
\* catalog zone (env override, platform-reported name, abbreviation table,
\* offset match, "UTC"), and the returned zone is that heuristic's.
C2_OrderedChain ==
    Detected =>
        /\ LevelOf(Tag) = WinningLevel
        /\ WinningLevel = 1 => Zone = H.env[1]
        /\ WinningLevel = 2 => Zone = PlatformYield[1]
        /\ WinningLevel = 3 => Zone = AbbrevYield[1]
        /\ WinningLevel = 4 => Zone \in OffsetCandidates
        /\ WinningLevel = 5 => Zone = "UTC"

\* C2 witness: a New York host in winter ("EST") with no usable override
\* or platform name; the abbreviation table wins although New York also
\* matches by offset
C2_Witness ==
    /\ Detected
    /\ ~EnvYields
    /\ PlatformYield = << >>
    /\ AbbrevYield = Some("America/New_York")
    /\ "America/New_York" \in OffsetCandidates
    /\ Cardinality(OffsetCandidates) = 2
    /\ Zone = "America/New_York"
    /\ Tag = "abbrev_map"

\* C3: an override that names no catalog zone (the empty string included)
\* changes nothing: the result is what it is with the variable unset.
C3_EnvIgnored ==
    (Detected /\ H.env # None /\ ~InList(H.env[1], timezones)) =>
        << Zone, Tag >> =
            detect_local_timezone_candidate(timezones, offset_map,
                                            [H EXCEPT !.env = None], now_utc)

\* C3 witness: the override names no zone at all, and a lower heuristic
\* (tzlocal) decided
C3_Witness ==
    /\ Detected
    /\ H.env = Some("Mars/Olympus")
    /\ ~InList(H.env[1], timezones)
    /\ Tag = "tzlocal_name"
    /\ Zone = H.zone

\* the lookup of catalog entry i failed while the snapshot was built
LookupFailed(i) ==
    USE_ZONEINFO /\ (timezones[i] \in H.missing \/ "UTC" \in H.missing)

\* C10 as stated: a detected default that is not in the catalog, and a
\* zone lookup that fails while the snapshot is built, are surfaced as an
\* error; the Home Clock is not set to another catalog zone and the zone
\* gets no placeholder offset.
C10_Original ==
    /\ (pc = "selected" /\ ~InList(Zone, timezones)) =>
          (ui_error /\ source_tz_name = None)
    /\ pc \in { "built", "detected", "selected" } =>
          \A i \in 1..Len(timezones) :
              LookupFailed(i) =>
                  (ui_error /\ ~\E j \in 1..Len(offset_map) :
                                   offset_map[j][1] = timezones[i])


\* the detector gets as far as the offset match, and the host reports an
\* offset: no override, platform name or abbreviation yields a catalog zone
ReachesOffsetStep ==
    /\ Detected
    /\ ~EnvYields
    /\ PlatformYield = << >>
    /\ AbbrevYield = None
    /\ H.astz = "ok"

\* the catalog zones, in catalog order, whose snapshot offset is the
\* host's current offset
CandidateList ==
    SelectSeq(timezones,
              LAMBDA z : OffsetGet(offset_map, z) = Some(HostTti(H, now_utc).off))

KeywordCandidates == SelectSeq(CandidateList, HasKeyword)

Labelled == pc = "selected"

\* the text between "(" and ")" of the label of zone tz
OffsetTextOf(lbl, tz) == SubSeq(lbl, Len(NameChars(tz)) + 3, Len(lbl) - 1)

\* C13 as stated: for every offset of sec seconds in the snapshot,
\* positive, zero or negative, whole hours or not, the offset text in the
\* zone's label is the string tz_info_from_aware_dt produces for sec.
C13_Original ==
    Labelled =>
        \A i \in 1..Len(target_labels) :
            LET tz  == available_targets(timezones, source_tz_name[1])[i]
                sec == OffsetGet(offset_map, tz)
            IN  sec # None =>
                    OffsetTextOf(target_labels[i], tz)
                        = tz_info_from_aware_dt(DtWithOffset(sec))

=============================================================================
